---- MODULE Spec2Model ----
(***************************************************************************)
(* The mu0 emulator: the command-line driver (mu0.py) and the Tk           *)
(* application (mu0_graphic.py).  Both parse a line-oriented assembly      *)
(* text into an instruction list and an initial memory, then execute it    *)
(* on an accumulator machine (acc, pc, memory).                            *)
(*                                                                         *)
(* A source line is abstracted to its tokens: the mnemonic as written,     *)
(* the operand literals as sequences of hexadecimal digits, and the        *)
(* comment.  Regular-expression matching is modelled on those tokens.      *)
(***************************************************************************)
EXTENDS Integers, Sequences, FiniteSets, TLC

VARIABLES
    variant,       \* "cli" (mu0.py) or "gui" (mu0_graphic.py)
    text,          \* the source text: file content / text box content
    where,         \* position of the control flow (see Init)
    line,          \* line counter of the parser, then line of the current instr.
    instructions,  \* parsed instructions (source in mu0.py)
    memory,        \* RAM: a function from the written addresses to values
    acc,           \* accumulator
    pc,            \* program counter
    runButton,     \* state of the "Run step" button
    textState,     \* state of the source text box
    stopButton,    \* state of the "Stop" button
    nextButton,    \* state of the "Next" button
    outputText,    \* last message shown (label of the GUI, stdout of the CLI)
    reports,       \* terminal messages shown since the last parse, in order
    steps,         \* instructions executed since the last parse or reset
    last,          \* the last step: its instruction, the state before and after
    step,          \* the -s option of the command line
    exitStatus     \* << >> while the process runs, then <<its exit status>>

vars == <<variant, text, where, line, instructions, memory, acc, pc,
          runButton, textState, stopButton, nextButton, outputText,
          reports, steps, last, step, exitStatus>>

----------------------------------------------------------------------------
(* Bounds of the model *)

MaxLines == 3

MaxSteps == 4

----------------------------------------------------------------------------
(* Source lines *)

NoComment == "none"

Ln(mn, ops, com) == [mn |-> mn, ops |-> ops, com |-> com]

\* The lines a source text is made of.
Lines ==
    { Ln("INI",   << <<1>>, <<7, 15, 15>> >>, NoComment),
      Ln("INI",   << <<1>>, <<15, 15, 14>> >>, NoComment),
      Ln("LOAD",  << <<1>> >>, NoComment),
      Ln("LDA",   << <<1>> >>, NoComment),
      Ln("STORE", << <<1>> >>, NoComment),
      Ln("STO",   << <<0>> >>, NoComment),
      Ln("ADD",   << <<1>> >>, "add"),
      Ln("SUB",   << <<1>> >>, NoComment),
      Ln("JUMP",  << <<0>> >>, NoComment),
      Ln("JMP",   << <<0>> >>, NoComment),
      Ln("JGE",   << <<5>> >>, NoComment),
      Ln("JNE",   << <<0>> >>, NoComment),
      Ln("STOP",  << >>, NoComment),
      Ln("stop",  << >>, NoComment),
      Ln("load",  << <<1>> >>, NoComment),
      Ln("",      << >>, "remark"),
      Ln("",      << >>, NoComment),
      Ln("XYZ",   << <<1>> >>, NoComment) }

\* The source texts: every sequence of at most MaxLines lines.
Texts == UNION { [1..n -> Lines] : n \in 0..MaxLines }

\* re.I: the mnemonic is matched ignoring case.
ToUpper(mn) ==
    CASE mn = "load" -> "LOAD"
      [] mn = "stop" -> "STOP"
      [] OTHER -> mn

\* int(s, 16) of the digits after "0x".
RECURSIVE HexVal(_)
HexVal(digits) ==
    IF digits = << >> THEN 0
    ELSE 16 * HexVal(SubSeq(digits, 1, Len(digits) - 1)) + digits[Len(digits)]

\* 0x[0-9A-Fa-f]{1,3}
IsHexLiteral(digits) ==
    /\ Len(digits) \in 1..3
    /\ \A i \in 1..Len(digits) : digits[i] \in 0..15

GuiMnemonics ==
    {"LOAD", "LDA", "STORE", "STO", "ADD", "SUB", "JUMP", "JMP", "JGE", "JNE"}

CliMnemonics == {"LOAD", "STORE", "ADD", "SUB", "JUMP", "JGE", "JNE"}

\* The mnemonic of the line as the regular expressions of the variant see it.
Seen(v, mn) == IF v = "gui" THEN ToUpper(mn) ELSE mn

MatchInitializer(v, l) ==
    /\ Seen(v, l.mn) = "INI"
    /\ Len(l.ops) = 2
    /\ IsHexLiteral(l.ops[1])
    /\ IsHexLiteral(l.ops[2])

MatchOperandInstruction(v, l) ==
    /\ Seen(v, l.mn) \in (IF v = "gui" THEN GuiMnemonics ELSE CliMnemonics)
    /\ Len(l.ops) = 1
    /\ IsHexLiteral(l.ops[1])

MatchStop(v, l) ==
    /\ Seen(v, l.mn) = "STOP"
    /\ l.ops = << >>

MatchCommentOrBlank(l) ==
    /\ l.mn = ""
    /\ l.ops = << >>

----------------------------------------------------------------------------
(* Two's complement on 12 bits *)

\* Decode with the sign bit tested off by one.
DecodeOffByOne(raw) == IF raw > 2048 THEN raw - 4096 ELSE raw

\* INI value: "if value > 0x7FF: value = value - 0x1000"
Decode(raw) == IF raw > 2047 THEN raw - 4096 ELSE raw

\* Encode with 0 taken for a negative value.
EncodeZeroNegative(v) == IF v > 0 THEN v ELSE v + 4096

\* Displayed value: "v if v >= 0 else v + 0x1000"
Encode(v) == IF v >= 0 THEN v ELSE v + 4096

EmptyMemory == [a \in {} |-> 0]

\* dump: one entry per memory cell, its hexadecimal token and its decimal value
dump(mem) == [a \in DOMAIN mem |-> [tok |-> Encode(mem[a]), dec |-> mem[a]]]

----------------------------------------------------------------------------
(* The state the handlers work on *)

NoMessage == [kind |-> "none"]

NoStep == [taken |-> FALSE]

Cur ==
    [ variant |-> variant, text |-> text, where |-> where, line |-> line,
      instructions |-> instructions, memory |-> memory, acc |-> acc, pc |-> pc,
      runButton |-> runButton, textState |-> textState,
      stopButton |-> stopButton, nextButton |-> nextButton,
      outputText |-> outputText, reports |-> reports, steps |-> steps,
      last |-> last, step |-> step, exitStatus |-> exitStatus,
      exc |-> "none", msg |-> NoMessage ]

Becomes(s) ==
    /\ variant' = s.variant
    /\ text' = s.text
    /\ where' = s.where
    /\ line' = s.line
    /\ instructions' = s.instructions
    /\ memory' = s.memory
    /\ acc' = s.acc
    /\ pc' = s.pc
    /\ runButton' = s.runButton
    /\ textState' = s.textState
    /\ stopButton' = s.stopButton
    /\ nextButton' = s.nextButton
    /\ outputText' = s.outputText
    /\ reports' = s.reports
    /\ steps' = s.steps
    /\ last' = s.last
    /\ step' = s.step
    /\ exitStatus' = s.exitStatus

\* quit() without an argument: SystemExit(None), which ends the process with
\* exit status 0.
quit(s) == [s EXCEPT !.where = "exited", !.exitStatus = <<0>>]

----------------------------------------------------------------------------
(* Parsing *)

Put(mem, a, v) == [x \in (DOMAIN mem) \cup {a} |-> IF x = a THEN v ELSE mem[x]]

\* StoreInitializer that keeps the first value given for an address.
StoreInitializerKeepFirst(s, l) ==
    [s EXCEPT !.memory = IF HexVal(l.ops[1]) \in DOMAIN @ THEN @
                         ELSE Put(@, HexVal(l.ops[1]), Decode(HexVal(l.ops[2]))),
              !.line = @ + 1]

\* "if match:" of the initializer: decode the value and store it.
StoreInitializer(s, l) ==
    [s EXCEPT !.memory = Put(@, HexVal(l.ops[1]), Decode(HexVal(l.ops[2]))),
              !.line = @ + 1]

\* AppendInstruction that numbers an instruction by its place in the list.
AppendInstructionByPosition(s, l) ==
    [s EXCEPT !.instructions =
                  Append(@, [opc |-> l.mn,
                             imm |-> IF l.ops = << >> THEN << >> ELSE l.ops[1],
                             com |-> l.com,
                             line |-> Len(s.instructions) + 1]),
              !.line = @ + 1]

\* "instructions.append(dict(opc, imm, com, line))"; STOP has the void group.
AppendInstruction(s, l) ==
    [s EXCEPT !.instructions =
                  Append(@, [opc |-> l.mn,
                             imm |-> IF l.ops = << >> THEN << >> ELSE l.ops[1],
                             com |-> l.com,
                             line |-> s.line]),
              !.line = @ + 1]

SyntaxReport(s, l) == [kind |-> "SyntaxError", line |-> s.line, text |-> l]

\* The loop over the source lines, from line i on.  A line that matches
\* nothing ends the loop with the exception pending, the lists as they are.
RECURSIVE ParseLines(_, _)
ParseLines(s, i) ==
    IF i > Len(s.text) THEN s
    ELSE LET l == s.text[i] IN
         IF MatchInitializer(s.variant, l)
           THEN ParseLines(StoreInitializer(s, l), i + 1)
         ELSE IF MatchOperandInstruction(s.variant, l) \/ MatchStop(s.variant, l)
           THEN ParseLines(AppendInstruction(s, l), i + 1)
         ELSE IF MatchCommentOrBlank(l)
           THEN ParseLines([s EXCEPT !.line = @ + 1], i + 1)
         ELSE [s EXCEPT !.exc = "SourceSyntaxError",
                        !.reports = Append(@, SyntaxReport(s, l))]

\* Application.parseSource: line, instructions and memory start afresh
\* (acc and pc are not touched).
parseSource(s) ==
    ParseLines([s EXCEPT !.line = 1, !.instructions = << >>,
                         !.memory = EmptyMemory,
                         !.reports = << >>, !.steps = 0],
               1)

----------------------------------------------------------------------------
(* Execution: the graphical application *)

GuiReads(opc) == opc \in {"LOAD", "LDA", "ADD", "SUB"}

\* guiAccess reading an absent cell as 0 instead of raising KeyError.
guiAccessSilentZero(opc, a, mem, imm) ==
    LET v == IF imm \in DOMAIN mem THEN mem[imm] ELSE 0
    IN [err |-> FALSE,
        acc |-> CASE opc = "LOAD" \/ opc = "LDA" -> v
                  [] opc = "ADD" -> a + v
                  [] opc = "SUB" -> a - v
                  [] OTHER -> a]

\* guiAccess keeping the accumulator in a 12-bit two's complement word.
guiAccessWrapped(opc, a, mem, imm) ==
    IF GuiReads(opc) /\ imm \notin DOMAIN mem
      THEN [err |-> TRUE, acc |-> a]
      ELSE [err |-> FALSE,
            acc |-> CASE opc = "LOAD" \/ opc = "LDA" -> mem[imm]
                      [] opc = "ADD" -> ((a + mem[imm] + 2048) % 4096) - 2048
                      [] opc = "SUB" -> ((a - mem[imm] + 2048) % 4096) - 2048
                      [] OTHER -> a]

\* The try block: LOAD/LDA, ADD, SUB on the accumulator; err is the KeyError
\* of memory[immediate], raised before the accumulator is assigned.
guiAccess(opc, a, mem, imm) ==
    IF GuiReads(opc) /\ imm \notin DOMAIN mem
      THEN [err |-> TRUE, acc |-> a]
      ELSE [err |-> FALSE,
            acc |-> CASE opc = "LOAD" \/ opc = "LDA" -> mem[imm]
                      [] opc = "ADD" -> a + mem[imm]
                      [] opc = "SUB" -> a - mem[imm]
                      [] OTHER -> a]

\* guiStore that writes only to a cell that already exists.
guiStoreExisting(opc, a, mem, imm) ==
    IF (opc = "STORE" \/ opc = "STO") /\ imm \in DOMAIN mem
      THEN Put(mem, imm, a) ELSE mem

\* "other instructions": the memory after STORE/STO.
guiStore(opc, a, mem, imm) ==
    IF opc = "STORE" \/ opc = "STO" THEN Put(mem, imm, a) ELSE mem

\* guiJump with JGE taken on a > 0 only.
guiJumpStrict(opc, a, p, imm) ==
    CASE opc = "JUMP" \/ opc = "JMP" -> imm
      [] opc = "JGE" -> IF a > 0 THEN imm ELSE p + 1
      [] opc = "JNE" -> IF a # 0 THEN imm ELSE p + 1
      [] OTHER -> p

\* "other instructions": the program counter after JUMP/JMP, JGE, JNE.
guiJump(opc, a, p, imm) ==
    CASE opc = "JUMP" \/ opc = "JMP" -> imm
      [] opc = "JGE" -> IF a >= 0 THEN imm ELSE p + 1
      [] opc = "JNE" -> IF a # 0 THEN imm ELSE p + 1
      [] OTHER -> p

\* guiIncrement that forgets the instructions outside the try block.
guiIncrementReadsOnly(opc, p) ==
    IF opc \in {"LOAD", "LDA", "ADD", "SUB"} THEN p + 1 ELSE p

\* "increment program counter after each non-jump instruction"
guiIncrement(opc, p) ==
    IF opc # "JUMP" /\ opc # "JGE" /\ opc # "JNE" THEN p + 1 ELSE p

NoInstruction == [opc |-> "", imm |-> << >>, com |-> NoComment, line |-> 0]

\* The record of a step: the state it started from (s), the instruction it
\* fetched, how it ended and the machine state it left; "after" counts the
\* terminal outcomes the run had already reported when the step began.
StepRecord(s, ins, outcome, a, p, mem) ==
    [taken |-> TRUE, n |-> s.steps, first |-> (s.steps = 0 /\ s.reports = << >>),
     after |-> Len(s.reports),
     len |-> Len(s.instructions), ins |-> ins,
     outcome |-> outcome,
     acc |-> s.acc, pc |-> s.pc, memory |-> s.memory,
     acc2 |-> a, pc2 |-> p, memory2 |-> mem]

Same(s, ins, outcome) == StepRecord(s, ins, outcome, s.acc, s.pc, s.memory)

ExecutedMessage(ln, number, ins, p, a, mem) ==
    [kind |-> "Executed", line |-> ln, number |-> number, opc |-> ins.opc,
     imm |-> HexVal(ins.imm), com |-> ins.com, pc |-> p,
     accTok |-> Encode(a), accDec |-> a, dump |-> dump(mem)]

CompletedMessage(mem) == [kind |-> "Completed", dump |-> dump(mem)]

HaltedMessage(ln, mem) == [kind |-> "Halted", line |-> ln, dump |-> dump(mem)]

FaultReport(ln) == [kind |-> "Fault", line |-> ln]

\* Application.runInstruction.  The result carries the pending exception:
\* ExecutionComplete (with its message), SystemExit after quit(), ValueError
\* from int('', 16), or none when the instruction was executed.
runInstruction(s) ==
    IF s.pc >= Len(s.instructions)
      THEN [s EXCEPT !.exc = "ExecutionComplete",
                     !.msg = CompletedMessage(s.memory),
                     !.last = Same(s, NoInstruction, "Completed")]
    ELSE LET ins == s.instructions[s.pc + 1]
             opcode == ins.opc
             s1 == [s EXCEPT !.line = ins.line]
         IN
         IF opcode = "STOP"
           THEN [s1 EXCEPT !.exc = "ExecutionComplete",
                           !.msg = HaltedMessage(ins.line, s.memory),
                           !.last = Same(s, ins, "Halted")]
         ELSE IF ins.imm = << >>
           THEN [s1 EXCEPT !.exc = "ValueError",
                           !.last = Same(s, ins, "ValueError")]
         ELSE LET immediate == HexVal(ins.imm)
                  access == guiAccess(opcode, s.acc, s.memory, immediate)
              IN
              IF access.err
                THEN [s1 EXCEPT !.exc = "SystemExit",
                                !.reports = Append(@, FaultReport(ins.line)),
                                !.last = Same(s, ins, "Fault")]
              ELSE LET a1 == access.acc
                       m1 == guiStore(opcode, a1, s.memory, immediate)
                       p1 == guiJump(opcode, a1, s.pc, immediate)
                       p2 == guiIncrement(opcode, p1)
                   IN [s1 EXCEPT !.acc = a1, !.memory = m1, !.pc = p2,
                                 !.steps = @ + 1,
                                 !.outputText =
                                     ExecutedMessage(ins.line, s.pc, ins,
                                                     p2, a1, m1),
                                 !.last = StepRecord(s, ins, "Executed",
                                                     a1, p2, m1)]

\* Application.resetProgramStatus
resetProgramStatus(s) ==
    [s EXCEPT !.line = 1, !.instructions = << >>, !.memory = EmptyMemory,
              !.acc = 0, !.pc = 0, !.steps = 0]

\* stopProgram that leaves the "Next" button as it is.
stopProgramKeepsNext(s) ==
    [resetProgramStatus(s) EXCEPT !.runButton = "normal",
                                  !.textState = "normal",
                                  !.stopButton = "disabled"]

\* Application.stopProgram
stopProgram(s) ==
    [resetProgramStatus(s) EXCEPT !.runButton = "normal",
                                  !.textState = "normal",
                                  !.stopButton = "disabled",
                                  !.nextButton = "disabled"]

\* "except ExecutionComplete as e: outputText.set(e.message); stopProgram()"
CatchComplete(s) ==
    IF s.exc = "ExecutionComplete"
      THEN stopProgram([s EXCEPT !.exc = "none",
                                 !.outputText = s.msg,
                                 !.reports = Append(@, s.msg),
                                 !.msg = NoMessage])
      ELSE s

\* runNext on a machine whose STORE to address k also overwrites the
\* instruction at position k, as if data and program shared one space.
runNextSharedSpace(s) ==
    LET r == runInstruction(s)
        k == HexVal(r.last.ins.imm) + 1
    IN CatchComplete(
           IF /\ r.exc = "none"
              /\ r.last.ins.opc \in {"STORE", "STO"}
              /\ k \in DOMAIN r.instructions
             THEN [r EXCEPT !.instructions[k] = NoInstruction]
             ELSE r)

\* Application.runNext
runNext(s) == CatchComplete(runInstruction(s))

\* Application.runProgram
runProgram(s) ==
    LET parsed == parseSource(s) IN
    IF parsed.exc # "none" THEN parsed
    ELSE CatchComplete(runNext([parsed EXCEPT !.runButton = "disabled",
                                              !.textState = "disabled",
                                              !.stopButton = "normal",
                                              !.nextButton = "normal"]))

\* Application.runAll up to the head of its loop.
runAllEntry(s) ==
    IF s.pc = 0 THEN CatchComplete(runProgram(s)) ELSE s

\* One turn of the loop of Application.runAll.
runAllTurn(s) == CatchComplete(runInstruction(s))

\* Where the control is once a handler of the application has ended: an
\* exception other than SystemExit is reported by Tk and the event loop goes on.
AfterHandler(s, next) ==
    IF s.exc = "SystemExit"
      THEN quit([s EXCEPT !.exc = "none"])
      ELSE [s EXCEPT !.where = IF s.exc = "none" THEN next ELSE "idle",
                     !.exc = "none"]

\* The cap of the model on the length of a run.
WithinSteps(s) ==
    (/\ s.pc < Len(s.instructions)
     /\ s.instructions[s.pc + 1].opc # "STOP") => s.steps < MaxSteps

----------------------------------------------------------------------------
(* Execution: the command-line driver *)

CliReads(opc) == opc \in {"LOAD", "ADD", "SUB"}

\* The try block: LOAD, ADD, SUB on the accumulator; err is the KeyError
\* of memory[immediate], raised before the accumulator is assigned.
cliAccess(opc, a, mem, imm) ==
    IF CliReads(opc) /\ imm \notin DOMAIN mem
      THEN [err |-> TRUE, acc |-> a]
      ELSE [err |-> FALSE,
            acc |-> CASE opc = "LOAD" -> mem[imm]
                      [] opc = "ADD" -> a + mem[imm]
                      [] opc = "SUB" -> a - mem[imm]
                      [] OTHER -> a]

\* "other instructions": the memory after STORE.
cliStore(opc, a, mem, imm) ==
    IF opc = "STORE" THEN Put(mem, imm, a) ELSE mem

\* "other instructions": the program counter after JUMP, JGE, JNE.
cliJump(opc, a, p, imm) ==
    CASE opc = "JUMP" -> imm
      [] opc = "JGE" -> IF a >= 0 THEN imm ELSE p + 1
      [] opc = "JNE" -> IF a # 0 THEN imm ELSE p + 1
      [] OTHER -> p

\* "increment program counter after each non-jump instruction"
cliIncrement(opc, p) ==
    IF opc # "JUMP" /\ opc # "JGE" /\ opc # "JNE" THEN p + 1 ELSE p

\* The parse loop of mu0.py and the dump that follows it; quit() on a
\* line that matches nothing.
cliParse(s) ==
    LET parsed == parseSource(s) IN
    IF parsed.exc # "none"
      THEN quit([parsed EXCEPT !.exc = "none"])
      ELSE [parsed EXCEPT !.where = "running",
                          !.outputText = [kind |-> "DumpBefore",
                                          dump |-> dump(parsed.memory)]]

\* "while pc < len(source)": the test and one turn of the loop.
cliTurn(s) ==
    IF ~(s.pc < Len(s.instructions))
      THEN [s EXCEPT !.where = "end"]
    ELSE LET ins == s.instructions[s.pc + 1]
             opcode == ins.opc
             s1 == [s EXCEPT !.line = ins.line]
         IN
         IF opcode = "STOP"
           THEN [s1 EXCEPT !.where = "end",
                           !.reports = Append(@, [kind |-> "Halted",
                                                  line |-> ins.line]),
                           !.last = Same(s, ins, "Halted")]
         ELSE LET immediate == HexVal(ins.imm)
                  access == cliAccess(opcode, s.acc, s.memory, immediate)
              IN
              IF access.err
                THEN quit([s1 EXCEPT
                                !.reports = Append(@, FaultReport(ins.line)),
                                !.last = Same(s, ins, "Fault")])
              ELSE LET a1 == access.acc
                       m1 == cliStore(opcode, a1, s.memory, immediate)
                       p1 == cliJump(opcode, a1, s.pc, immediate)
                       p2 == cliIncrement(opcode, p1)
                   IN [s1 EXCEPT !.acc = a1, !.memory = m1, !.pc = p2,
                                 !.steps = @ + 1,
                                 !.outputText =
                                     IF s.step
                                       THEN ExecutedMessage(ins.line, s.pc, ins,
                                                            p2, a1, m1)
                                       ELSE @,
                                 !.last = StepRecord(s, ins, "Executed",
                                                     a1, p2, m1)]

\* After the loop: the EOF message and the final dump; the script ends and
\* the interpreter exits with status 0.
cliEnd(s) ==
    [s EXCEPT !.where = "done",
              !.exitStatus = <<0>>,
              !.reports = IF s.pc = Len(s.instructions)
                            THEN Append(@, [kind |-> "Completed"])
                            ELSE @,
              !.outputText = [kind |-> "DumpAfter", dump |-> dump(s.memory)]]

----------------------------------------------------------------------------
(* The state machine *)

\* The state after construction, for a set of source texts.
InitWith(texts) ==
    /\ variant \in {"gui", "cli"}
    /\ text \in texts
    /\ where = IF variant = "gui" THEN "idle" ELSE "start"
    /\ step \in IF variant = "cli" THEN BOOLEAN ELSE {FALSE}
    /\ line = 1
    /\ instructions = << >>
    /\ memory = EmptyMemory
    /\ acc = 0
    /\ pc = 0
    /\ runButton = "normal"
    /\ textState = "normal"
    /\ stopButton = "disabled"
    /\ nextButton = "disabled"
    /\ outputText = [kind |-> "Blank"]
    /\ reports = << >>
    /\ steps = 0
    /\ last = NoStep
    /\ exitStatus = << >>

Init == InitWith(Texts)

\* The "Run step" button.
ClickRunStep ==
    /\ variant = "gui"
    /\ where = "idle"
    /\ runButton = "normal"
    /\ Becomes(AfterHandler(runProgram(Cur), "idle"))

\* The "Next" button.
ClickNext ==
    /\ variant = "gui"
    /\ where = "idle"
    /\ nextButton = "normal"
    /\ WithinSteps(Cur)
    /\ Becomes(AfterHandler(runNext(Cur), "idle"))

\* The "Stop" button.
ClickStop ==
    /\ variant = "gui"
    /\ where = "idle"
    /\ stopButton = "normal"
    /\ Becomes(stopProgram(Cur))

\* The "Run all" button: runAll up to the head of its loop.
ClickRunAll ==
    /\ variant = "gui"
    /\ where = "idle"
    /\ Becomes(AfterHandler(runAllEntry(Cur), "runAll"))

\* One turn of the loop of runAll; ExecutionComplete breaks out of it.
RunAllLoop ==
    /\ variant = "gui"
    /\ where = "runAll"
    /\ WithinSteps(Cur)
    /\ Becomes(AfterHandler(runAllTurn(Cur),
                            IF runInstruction(Cur).exc = "ExecutionComplete"
                              THEN "idle" ELSE "runAll"))

\* mu0.py: parsing the source file.
CliParse ==
    /\ variant = "cli"
    /\ where = "start"
    /\ Becomes(cliParse(Cur))

\* mu0.py: one turn of the execution loop.
CliStep ==
    /\ variant = "cli"
    /\ where = "running"
    /\ WithinSteps(Cur)
    /\ Becomes(cliTurn(Cur))

\* mu0.py: the end of the script.
CliEnd ==
    /\ variant = "cli"
    /\ where = "end"
    /\ Becomes(cliEnd(Cur))

Next ==
    \/ ClickRunStep
    \/ ClickNext
    \/ ClickStop
    \/ ClickRunAll
    \/ RunAllLoop
    \/ CliParse
    \/ CliStep
    \/ CliEnd

Spec == Init /\ [][Next]_vars

\* The texts "INI 0x1 0xRRR / LOAD 0x1 / STOP" for every value 0xRRR.
ConvTexts ==
    { << Ln("INI", << <<1>>, <<d1, d2, d3>> >>, NoComment),
         Ln("LOAD", << <<1>> >>, NoComment),
         Ln("STOP", << >>, NoComment) >> : d1 \in 0..15, d2 \in 0..15, d3 \in 0..15 }

InitConv == InitWith(ConvTexts)

\* The same programs on the texts that initialise a cell with every value.
SpecConv == InitConv /\ [][Next]_vars

\* The lines that initialise, read, write and halt.
ArithLines ==
    {l \in Lines : l.mn \in {"LOAD", "LDA", "STORE", "STO", "ADD", "SUB", "STOP"}}

\* An initialised cell followed by three such lines.
ArithTexts ==
    { <<i, a, b, c>> : i \in {l \in Lines : l.mn = "INI"},
                       a \in ArithLines, b \in ArithLines, c \in ArithLines }

InitArith == InitWith(ArithTexts)

\* The same programs on the texts that do arithmetic on one cell.
SpecArith == InitArith /\ [][Next]_vars

----------------------------------------------------------------------------
(* Claims *)

HasReport(kind) == \E i \in DOMAIN reports : reports[i].kind = kind

LastReport == reports[Len(reports)]

C1_Canonical(opc) ==
    CASE opc = "LDA" -> "LOAD"
      [] opc = "STO" -> "STORE"
      [] opc = "JMP" -> "JUMP"
      [] OTHER -> opc

\* C1: a step on an alias mnemonic (LDA, STO, JMP) leaves the accumulator,
\* the program counter and the memory that a step on the canonical mnemonic
\* (LOAD, STORE, JUMP) leaves from the same state with the same operand, and
\* faults exactly when the canonical one does; so JMP a leaves pc = a.
C1_AliasAsCanonical ==
    (/\ last.taken
     /\ last.ins.opc \in {"LDA", "STO", "JMP"}
     /\ last.outcome \in {"Executed", "Fault"})
    => LET opc == C1_Canonical(last.ins.opc)
           imm == HexVal(last.ins.imm)
           access == guiAccess(opc, last.acc, last.memory, imm)
       IN IF access.err
            THEN last.outcome = "Fault"
            ELSE /\ last.outcome = "Executed"
                 /\ last.acc2 = access.acc
                 /\ last.memory2 = guiStore(opc, access.acc, last.memory, imm)
                 /\ last.pc2 = guiIncrement(opc, guiJump(opc, access.acc,
                                                         last.pc, imm))

\* C2: once a run has reported Halted, the line it names is the line of a
\* STOP and the run reports no Completed; a text whose only instruction is
\* STOP reports Halted after one step and nothing else.
C2_StopEndsHalted ==
    \A i \in DOMAIN reports :
        reports[i].kind = "Halted"
        => /\ text[reports[i].line].mn = "STOP"
           /\ ~HasReport("Completed")
           /\ Len(reports) = 1

\* C3: a step that starts with pc >= len(instructions) ends Completed, and
\* the command-line run that leaves its loop with pc >= len(source) without
\* a STOP has reported the end of the program.
C3_PastEndCompletes ==
    /\ (last.taken /\ last.pc >= last.len) => last.outcome = "Completed"
    /\ (variant = "cli" /\ where = "done" /\ pc >= Len(instructions))
       => (reports # << >> /\ LastReport.kind = "Completed")

C4_Absent == HexVal(last.ins.imm) \notin DOMAIN last.memory

\* C4: a step on LOAD (LDA), ADD or SUB whose operand address is not in
\* memory ends in a fault that names the line of the instruction, leaves
\* acc, pc and memory as they were, and ends the process, so that nothing
\* runs after it; and a step on them that was executed read a present cell.
C4_AbsentReadFaults ==
    (last.taken /\ last.outcome \in {"Executed", "Fault"})
    => /\ (last.ins.opc \in {"LOAD", "LDA", "ADD", "SUB"} /\ C4_Absent)
          <=> last.outcome = "Fault"
       /\ last.outcome = "Fault"
          => /\ last.acc2 = last.acc /\ last.pc2 = last.pc
             /\ last.memory2 = last.memory
             /\ acc = last.acc /\ pc = last.pc /\ memory = last.memory
             /\ steps = last.n
             /\ where = "exited"
             /\ LastReport = [kind |-> "Fault", line |-> last.ins.line]
             /\ text[last.ins.line].mn = last.ins.opc

C4_Witness ==
    /\ last.taken
    /\ last.outcome = "Fault"
    /\ last.ins.opc = "ADD"
    /\ last.n > 0
    /\ variant = "gui"

\* C5: an executed JGE a leaves pc = a if the accumulator is >= 0 and pc + 1
\* otherwise; an executed JNE a leaves pc = a if the accumulator is not 0 and
\* pc + 1 otherwise; both leave the accumulator and the memory alone, and a
\* step on them is always executed.
C5_ConditionalJumps ==
    (last.taken /\ last.ins.opc \in {"JGE", "JNE"})
    => LET a == HexVal(last.ins.imm)
           taken == IF last.ins.opc = "JGE" THEN last.acc >= 0
                                            ELSE last.acc # 0
       IN /\ last.outcome = "Executed"
          /\ last.pc2 = IF taken THEN a ELSE last.pc + 1
          /\ last.acc2 = last.acc
          /\ last.memory2 = last.memory

C5_Witness ==
    /\ last.taken
    /\ last.ins.opc = "JGE"
    /\ last.acc < 0
    /\ last.pc2 = last.pc + 1
    /\ last.pc2 # HexVal(last.ins.imm)

RECURSIVE C6_FirstBad(_)
C6_FirstBad(i) ==
    IF \/ MatchInitializer(variant, text[i])
       \/ MatchOperandInstruction(variant, text[i])
       \/ MatchStop(variant, text[i])
       \/ MatchCommentOrBlank(text[i])
      THEN C6_FirstBad(i + 1)
      ELSE i

\* C6: once a syntax error is reported, it names the first line that matches
\* no form and carries its text, no instruction has been executed, and as
\* long as the program lives it holds no instruction and no memory cell of
\* the text.
C6_SyntaxErrorFailFast ==
    (reports # << >> /\ LastReport.kind = "SyntaxError")
    => /\ LastReport.line = C6_FirstBad(1)
       /\ LastReport.text = text[LastReport.line]
       /\ ~last.taken
       /\ steps = 0
       /\ where # "exited" => (instructions = << >> /\ memory = EmptyMemory)

C7_IniLines == {i \in DOMAIN text : MatchInitializer(variant, text[i])}

C7_Max(S) == CHOOSE i \in S : \A j \in S : j <= i

C7_Image ==
    [a \in {HexVal(text[i].ops[1]) : i \in C7_IniLines} |->
        Decode(HexVal(text[C7_Max({i \in C7_IniLines :
                                       HexVal(text[i].ops[1]) = a})].ops[2]))]

\* C7: the first step after a parse starts from accumulator 0, program
\* counter 0 and the memory image of the INI lines of the text.
C7_FreshStart ==
    (last.taken /\ last.first)
    => /\ last.acc = 0
       /\ last.pc = 0
       /\ last.memory = C7_Image

C8_NoJumps ==
    \A i \in DOMAIN instructions :
        instructions[i].opc \notin {"JUMP", "JMP", "JGE", "JNE"}

\* C8: while the instruction list holds no JUMP, JMP, JGE or JNE, the
\* program counter equals the number of instructions executed in the run,
\* and each executed step left pc one above the count it started with.
C8_PcCountsSteps ==
    C8_NoJumps
    => /\ pc = steps
       /\ (last.taken /\ last.outcome = "Executed" /\ instructions # << >>)
          => last.pc2 = last.n + 1

C8_Witness ==
    /\ C8_NoJumps
    /\ variant = "gui"
    /\ Len(instructions) = 3
    /\ steps = 3
    /\ pc = 3

C9_Raw == HexVal(text[1].ops[2])

\* C9: for every raw value r in 0..4095 given to INI, the cell holds
\* decode(r), a value s in -2048..2047 with decode(encode(s)) = s, and the
\* token that dump shows for it, encode(decode(r)), is r again.
C9_Inverse ==
    \A a \in DOMAIN memory :
        /\ memory[a] \in -2048..2047
        /\ Decode(Encode(memory[a])) = memory[a]
        /\ Encode(memory[a]) = C9_Raw
        /\ dump(memory)[a].tok = C9_Raw

C9_Witness ==
    /\ C9_Raw = 2048
    /\ 1 \in DOMAIN memory
    /\ memory[1] = -2048
    /\ outputText.kind = "Executed"
    /\ outputText.dump[1].tok = 2048
    /\ outputText.accTok = 2048

\* The values a message shows: the accumulator of a step report and the
\* cells of a dump, each with its token and its decimal value.
C10_Shown ==
    (IF outputText.kind = "Executed"
       THEN {[tok |-> outputText.accTok, dec |-> outputText.accDec]}
       ELSE {})
    \cup
    (IF outputText.kind \in {"Executed", "Halted", "Completed",
                             "DumpBefore", "DumpAfter"}
       THEN {outputText.dump[a] : a \in DOMAIN outputText.dump}
       ELSE {})

\* C10 as stated: every value shown is a token in 0..0xFFF whose decoding is
\* the stored value.
C10_TokensAlwaysDecode ==
    \A v \in C10_Shown : v.tok \in 0..4095 /\ Decode(v.tok) = v.dec

\* C10, amended: every shown value that lies in -2048..2047 is shown as a
\* token in 0..0xFFF whose decoding is the stored value.
C10_TokensDecodeInRange ==
    \A v \in C10_Shown :
        v.dec \in -2048..2047 => (v.tok \in 0..4095 /\ Decode(v.tok) = v.dec)

C10_Witness ==
    /\ outputText.kind = "Executed"
    /\ outputText.accDec = -2
    /\ outputText.accTok = 4094
    /\ \E a \in DOMAIN outputText.dump : outputText.dump[a].dec < 0

\* C11: the accumulator is a mathematical integer.  After ADD a (SUB a) it is
\* the previous accumulator plus (minus) memory[a], with no reduction to 12
\* bits, and STORE a writes the accumulator as it is, also when it lies
\* outside [-2048, 2047].
C11_ExactArithmetic ==
    (last.taken /\ last.outcome = "Executed") =>
        LET a == HexVal(last.ins.imm) IN
        /\ last.ins.opc = "ADD" => last.acc2 = last.acc + last.memory[a]
        /\ last.ins.opc = "SUB" => last.acc2 = last.acc - last.memory[a]
        /\ last.ins.opc \in {"STORE", "STO"} =>
               /\ last.acc2 = last.acc
               /\ last.memory2[a] = last.acc

\* A STORE that has written an accumulator outside the 12-bit range.
C11_Witness ==
    /\ last.taken /\ last.outcome = "Executed"
    /\ last.ins.opc \in {"STORE", "STO"}
    /\ last.acc \notin -2048..2047
    /\ last.memory2[HexVal(last.ins.imm)] = last.acc

\* C12: in the command-line program a syntax error and an invalid memory
\* access end the process with a non-zero exit status, which tells them from
\* a run that ended at STOP or at the end of the program (status 0).
C12_ErrorsExitNonZero ==
    variant = "cli" =>
        /\ where = "exited" => (exitStatus # << >> /\ exitStatus[1] # 0)
        /\ where = "done" => exitStatus = <<0>>

\* C13: a run to completion stops at the first terminal outcome: no step
\* begins once the run has reported Halted, Completed or a fault, and that
\* first outcome is the only one the run reports.
C13_StopsAtFirstTerminal ==
    /\ last.taken => last.after = 0
    /\ Len(reports) <= 1

\* C14: an executed LOAD a sets acc to memory[a], ADD a and SUB a add and
\* subtract memory[a], and each leaves memory as it was; STORE a sets
\* memory[a] to acc, creating the cell if needed, and leaves acc and every
\* other cell as they were; all four advance pc by exactly one.
C14_DataInstructionFrames ==
    (/\ last.taken /\ last.outcome = "Executed"
     /\ last.ins.opc \in {"LOAD", "LDA", "ADD", "SUB", "STORE", "STO"}) =>
        LET a == HexVal(last.ins.imm)
            opc == last.ins.opc
        IN
        /\ last.pc2 = last.pc + 1
        /\ opc \in {"LOAD", "LDA", "ADD", "SUB"} =>
               /\ last.memory2 = last.memory
               /\ last.acc2 = CASE opc = "ADD" -> last.acc + last.memory[a]
                                [] opc = "SUB" -> last.acc - last.memory[a]
                                [] OTHER -> last.memory[a]
        /\ opc \in {"STORE", "STO"} =>
               /\ last.acc2 = last.acc
               /\ DOMAIN last.memory2 = DOMAIN last.memory \cup {a}
               /\ \A x \in DOMAIN last.memory2 :
                      last.memory2[x] = IF x = a THEN last.acc
                                                ELSE last.memory[x]

\* A STORE that has created a cell next to another one.
C14_Witness ==
    /\ last.taken /\ last.outcome = "Executed"
    /\ last.ins.opc \in {"STORE", "STO"}
    /\ HexVal(last.ins.imm) \notin DOMAIN last.memory
    /\ last.memory # EmptyMemory
    /\ last.acc # 0
    /\ HexVal(last.ins.imm) \in DOMAIN last.memory2

\* The instructions that the lines of the text from line i on denote, each
\* with the line it is on.
RECURSIVE C15_From(_)
C15_From(i) ==
    IF i > Len(text) THEN << >>
    ELSE LET l == text[i] IN
         IF MatchOperandInstruction(variant, l) \/ MatchStop(variant, l)
           THEN << [opc |-> l.mn,
                    imm |-> IF l.ops = << >> THEN << >> ELSE l.ops[1],
                    com |-> l.com,
                    line |-> i] >> \o C15_From(i + 1)
           ELSE C15_From(i + 1)

\* C15: executing instructions never changes the instruction list: while a
\* run has executed steps and has not been reset, the list is still the one
\* the text denotes (opcodes, operands, comments, line numbers); a STORE to
\* data address k leaves the instruction at position k as it was.
C15_InstructionsFixed ==
    steps > 0 => instructions = C15_From(1)

\* A run that has just stored to data address 0 with an instruction at
\* position 0.
C15_Witness ==
    /\ steps > 0
    /\ last.taken /\ last.outcome = "Executed" /\ last.n = steps - 1
    /\ last.ins.opc \in {"STORE", "STO"}
    /\ HexVal(last.ins.imm) = 0
    /\ 0 \in DOMAIN memory
    /\ Len(instructions) > 0

\* The value that INI gives for a raw 12-bit operand.
C16_Signed(raw) == IF raw > 2047 THEN raw - 4096 ELSE raw

\* C16: the INI lines build the initial memory and nothing else.  When the
\* first step of a run begins, memory holds exactly the addresses named by
\* INI lines, each with the decoded value of the last INI line for it; every
\* address is in [0, 0xFFF] and every value in [-2048, 2047]; and the
\* instruction list has one entry per instruction line, none for INI.
C16_IniBuildsImage ==
    (last.taken /\ last.first) =>
        /\ DOMAIN last.memory = {HexVal(text[i].ops[1]) : i \in C7_IniLines}
        /\ \A i \in C7_IniLines :
               (\A j \in C7_IniLines :
                    (j > i) => HexVal(text[j].ops[1]) # HexVal(text[i].ops[1]))
               => last.memory[HexVal(text[i].ops[1])]
                      = C16_Signed(HexVal(text[i].ops[2]))
        /\ \A a \in DOMAIN last.memory :
               a \in 0..4095 /\ last.memory[a] \in -2048..2047
        /\ last.len = Len(text) - Cardinality(C7_IniLines)
                       - Cardinality({i \in DOMAIN text :
                                         MatchCommentOrBlank(text[i])})

\* A run on a text with two INI lines for address 1, 0x7FF then 0xFFE, and
\* an instruction after them: the cell starts at -2 and the list has one entry.
C16_Witness ==
    /\ last.taken /\ last.first
    /\ Len(text) = 3
    /\ text[1] = Ln("INI", << <<1>>, <<7, 15, 15>> >>, NoComment)
    /\ text[2] = Ln("INI", << <<1>>, <<15, 15, 14>> >>, NoComment)
    /\ last.memory = [a \in {1} |-> -2]
    /\ last.len = 1

\* The instruction lines among the first n lines of the text.
C17_InstructionLines(n) ==
    {i \in 1..n : \/ MatchOperandInstruction(variant, text[i])
                  \/ MatchStop(variant, text[i])}

\* Line n of the text is the k-th instruction line and holds mnemonic opc.
C17_IsLineOf(n, k, opc) ==
    /\ n \in C17_InstructionLines(Len(text))
    /\ Cardinality(C17_InstructionLines(n)) = k
    /\ text[n].mn = opc

\* C17: every parsed instruction carries the 1-based number of the physical
\* line it is on, the INI, comment and blank lines before it counted; the
\* line that Halted and a fault report is the line of the instruction that
\* was being executed.
C17_PhysicalLineNumbers ==
    /\ \A k \in DOMAIN instructions :
           C17_IsLineOf(instructions[k].line, k, instructions[k].opc)
    /\ (last.taken /\ last.outcome \in {"Halted", "Fault"}) =>
           /\ LastReport.kind = last.outcome
           /\ C17_IsLineOf(LastReport.line, last.pc + 1, last.ins.opc)

\* Halted at line 3 of a text whose first two lines are an INI line and a
\* comment or blank line.
C17_Witness ==
    /\ Len(text) = 3
    /\ MatchInitializer(variant, text[1])
    /\ MatchCommentOrBlank(text[2])
    /\ last.taken /\ last.outcome = "Halted" /\ last.pc = 0
    /\ reports # << >>
    /\ LastReport.kind = "Halted" /\ LastReport.line = 3

\* C18: the graphical application matches instruction lines ignoring case,
\* and a step on a mnemonic written in lower or mixed case ends as the step
\* on the upper-case mnemonic does from the same state with the same
\* operand: Halted for stop, and otherwise the same fault or the same
\* accumulator, memory and program counter.
C18_CaseInsensitive ==
    variant = "gui" =>
        /\ \A i \in DOMAIN reports :
               reports[i].kind = "SyntaxError" =>
                   LET l == [reports[i].text EXCEPT !.mn = ToUpper(@)]
                   IN ~(\/ MatchInitializer("cli", l)
                        \/ MatchOperandInstruction("cli", l)
                        \/ MatchStop("cli", l))
        /\ (last.taken /\ last.ins.opc # ToUpper(last.ins.opc)) =>
               LET opc == ToUpper(last.ins.opc)
                   imm == HexVal(last.ins.imm)
                   access == guiAccess(opc, last.acc, last.memory, imm)
               IN IF opc = "STOP" THEN last.outcome = "Halted"
                  ELSE IF access.err THEN last.outcome = "Fault"
                  ELSE /\ last.outcome = "Executed"
                       /\ last.acc2 = access.acc
                       /\ last.memory2 = guiStore(opc, access.acc,
                                                  last.memory, imm)
                       /\ last.pc2 = guiIncrement(opc, guiJump(opc, access.acc,
                                                               last.pc, imm))

\* The run has reported Halted or Completed.
C19_Ended ==
    reports # << >> /\ LastReport.kind \in {"Halted", "Completed"}

\* C19: in the graphical application the controls are consistent after any
\* sequence of Run step, Next, Stop and Run all: Next and Stop are enabled
\* exactly when Run step is disabled and the text is locked, and that is
\* exactly while a run is live (no Halted or Completed reported; with the
\* controls idle nothing has been executed and acc and pc are 0); after
\* Halted or Completed the machine is reset (acc 0, pc 0, no instruction, no
\* memory cell) and Next is disabled until a new run is started.
C19_ControlsConsistent ==
    variant = "gui" =>
        /\ {runButton, textState, stopButton, nextButton}
               \subseteq {"normal", "disabled"}
        /\ (nextButton = "normal") = (stopButton = "normal")
        /\ (nextButton = "normal") = (runButton = "disabled")
        /\ (nextButton = "normal") = (textState = "disabled")
        /\ nextButton = "normal" => ~C19_Ended
        /\ nextButton = "disabled" => (steps = 0 /\ acc = 0 /\ pc = 0)
        /\ C19_Ended =>
               /\ acc = 0 /\ pc = 0
               /\ instructions = << >> /\ memory = EmptyMemory
               /\ nextButton = "disabled"

\* A stepped run that Next has ended at STOP after an executed instruction
\* that had changed the accumulator.
C19_Witness ==
    /\ variant = "gui" /\ where = "idle"
    /\ C19_Ended /\ LastReport.kind = "Halted"
    /\ last.taken /\ last.outcome = "Halted"
    /\ last.n > 0 /\ last.acc # 0
    /\ nextButton = "disabled" /\ runButton = "normal"
    /\ acc = 0 /\ pc = 0 /\ instructions = << >>

\* The text is a program without jumps: every line has one of the forms of
\* the language and none is JUMP, JMP, JGE or JNE.
C20_JumpFree ==
    \A i \in DOMAIN text :
        /\ \/ MatchInitializer(variant, text[i])
           \/ MatchOperandInstruction(variant, text[i])
           \/ MatchStop(variant, text[i])
           \/ MatchCommentOrBlank(text[i])
        /\ ToUpper(text[i].mn) \notin {"JUMP", "JMP", "JGE", "JNE"}

\* C20: on a program without jumps whose reads hit initialised memory, a
\* run to completion terminates.  Each turn of its loop either executes an
\* instruction or ends the run as Halted or Completed; pc and the number of
\* executed instructions never exceed len(instructions), so that at most
\* len(instructions) + 1 steps are taken; and when the run returns (the
\* loop of Run all is left, the command-line script ends) it has reported
\* Halted or Completed.
C20_JumpFreeTerminates ==
    [][(C20_JumpFree /\ where' # "exited") =>
          /\ pc' <= Len(instructions')
          /\ steps' <= Len(instructions')
          /\ (last'.taken /\ last' # last
              /\ (where = "runAll" \/ variant = "cli")) =>
                 last'.outcome \in {"Executed", "Halted", "Completed"}
          /\ ((where = "runAll" /\ where' = "idle") \/ where' = "done") =>
                 (/\ reports' # << >>
                  /\ reports'[Len(reports')].kind \in {"Halted", "Completed"})
      ]_vars

====
